---- MODULE Spec2Model ----
(***************************************************************************)
(* State-machine model of src/network.c, the sysrepo network plugin:       *)
(* interface discovery over netlink, the initial configuration load, the   *)
(* module-change callback (datastore -> run-time model -> UCI -> network   *)
(* restart) and the process that restart_network forks.                    *)
(***************************************************************************)
EXTENDS Integers, Sequences, FiniteSets, TLC

VARIABLES
    interfaces,   \* the global list `interfaces`, in list_for_each_entry order
    datastore,    \* running datastore: a function from paths to values
    uciStore,     \* option values of the network package: <<section, option>> -> value
    procs,        \* process table: pid -> what the process is doing
    pluginPid,    \* the process that executes the plug-in code
    plugin,       \* outcome of sr_plugin_init_cb: context, *private_ctx, subscriptions
    lastEvent,    \* record of the last module_change_cb invocation
    lastRequest   \* record of the last data_provider_cb invocation

vars == <<interfaces, datastore, uciStore, procs, pluginPid, plugin, lastEvent,
          lastRequest>>

----------------------------------------------------------------------------
(* Bounds of the model *)

\* at most this many link responses are received, over all netlink dumps
MaxLinks == 2
\* at most this many calls the host makes after the initialisation: change
\* events, data requests and the cleanup
MaxEvents == 1
\* at most this many times the host calls sr_plugin_init_cb
MaxLoads == 2

(* Domains the inputs are drawn from *)

Names == {"eth0", "wlan0"}

NULL == "NULL"

\* the kernel's answer to RTM_GETLINK: any stream of names, repeats included,
\* of at most max messages
LinkStreams(max) == UNION {[1..n -> Names] : n \in 0..max}

\* live kernel state read by init_config_ipv4 (get_ip4, get_mtu)
KernelLinks ==
    [n \in Names |-> IF n = "eth0" THEN [ip |-> "192.168.1.1", mtu |-> 1500]
                                   ELSE [ip |-> "10.1.1.1", mtu |-> 1500]]

\* sections of the UCI package "network", in file order
UciSections ==
    << [name |-> "lan",  ifname |-> "eth0"],
       [name |-> "lan2", ifname |-> "eth0"],
       [name |-> "wan",  ifname |-> "eth1"] >>

\* the options the package holds before the plug-in is loaded
UciFile ==
    [p \in {<<UciSections[k].name, "ifname">> : k \in 1..Len(UciSections)}
            \cup {<<"lan", "mtu">>, <<"lan", "proto">>} |->
        CASE p = <<"lan", "mtu">>   -> 1400
          [] p = <<"lan", "proto">> -> "static"
          [] OTHER -> UciSections[CHOOSE k \in 1..Len(UciSections) :
                                     UciSections[k].name = p[1]].ifname]

\* return codes
SR_ERR_OK == "SR_ERR_OK"
SR_ERR_NOT_FOUND == "SR_ERR_NOT_FOUND"
SR_ERR_INTERNAL == "SR_ERR_INTERNAL"
SR_ERR_INVAL_ARG == "SR_ERR_INVAL_ARG"
UCI_OK == "UCI_OK"

\* sr_notif_event_t
SR_EV_VERIFY == "verify"
SR_EV_APPLY == "apply"
SR_EV_ABORT == "abort"

\* the delay module_change_cb hands to restart_network
RESTART_TIME_TO_WAIT == "RESTART_TIME_TO_WAIT"

----------------------------------------------------------------------------
(* origin: enum <-> string *)

OriginNames == <<"static", "dhcp", "link-layer", "random", "other", "unknown">>

\* datastore enum string -> enumerator (0-based); anything else is "unknown"
string_to_origin(s) ==
    IF \E i \in 1..Len(OriginNames) : OriginNames[i] = s
    THEN (CHOOSE i \in 1..Len(OriginNames) : OriginNames[i] = s) - 1
    ELSE Len(OriginNames) - 1

\* enumerator -> configuration-store string
origin_to_string(o) == OriginNames[o + 1]

----------------------------------------------------------------------------
(* Interface registry and kernel discovery *)

\* calloc'ed if_interface with a calloc'ed ip_v4; only `enabled` is set
make_interface_ipv4(name) ==
    [name |-> name, type |-> NULL,
     enabled |-> TRUE, forwarding |-> FALSE, origin |-> 0, mtu |-> 0,
     ip |-> "", prefix_length |-> 0]

\* list_add(new, head) links the new entry right after the head
list_add(new, list) == <<new>> \o list

\* one netlink message carrying one IFLA_IFNAME attribute
ls_interfaces_cb(list, name) == list_add(make_interface_ipv4(name), list)

RECURSIVE RecvMsgs(_, _, _)
RecvMsgs(list, stream, k) ==
    IF k > Len(stream) THEN list
    ELSE RecvMsgs(ls_interfaces_cb(list, stream[k]), stream, k + 1)

\* chanOk: the netlink socket was allocated and bound, the dump was answered
ls_interfaces(list, stream, chanOk) ==
    IF chanOk THEN RecvMsgs(list, stream, 1) ELSE list

----------------------------------------------------------------------------
(* Initial configuration load *)

\* ip and mtu from the kernel link; nothing if the link is not found
init_config_ipv4(iface) ==
    IF iface.name \in DOMAIN KernelLinks
    THEN [iface EXCEPT !.ip = KernelLinks[iface.name].ip,
                       !.mtu = KernelLinks[iface.name].mtu]
    ELSE iface

Matching(ifname) == {k \in 1..Len(UciSections) : UciSections[k].ifname = ifname}

\* mutant: the scan goes on after a match, the last matching section wins
find_interface_type_Last(loadOk, ifname, if_type) ==
    IF loadOk /\ Matching(ifname) # {}
    THEN UciSections[CHOOSE k \in Matching(ifname) : \A j \in Matching(ifname) : k >= j].name
    ELSE if_type

\* first section whose ifname option equals the name; *if_type untouched otherwise
find_interface_type(loadOk, ifname, if_type) ==
    IF loadOk /\ Matching(ifname) # {}
    THEN UciSections[CHOOSE k \in Matching(ifname) : \A j \in Matching(ifname) : k <= j].name
    ELSE if_type

\* the uci_load / uci_unload calls of one find_interface_type call.  `up` is
\* assigned by a successful uci_load only; `if (up) uci_unload(uctx, up)` after a
\* failed one reads it unassigned: null, or not (upGarbage)
find_interface_type_calls(loadOk, upGarbage) ==
    IF loadOk THEN <<"load", "unload">>
    ELSE IF upGarbage THEN <<"load_failed", "unload_not_loaded">>
    ELSE <<"load_failed">>

\* loadFail: index of the interface whose uci_load fails, 0 for none.
\* After a failed uci_load find_interface_type reads `up`, which was never
\* assigned: it is null and nothing happens, or it is not (upGarbage) and
\* uci_unload runs on it, where the process dies (returned = FALSE).
\*   calls : the uci_load / uci_unload calls made, per interface visited
init_config(list, loadFail, upGarbage) ==
    LET dies == upGarbage /\ loadFail \in 1..Len(list)
        last == IF dies THEN loadFail ELSE Len(list)
    IN  [ifs |-> [i \in 1..Len(list) |->
                    IF dies /\ i > loadFail THEN list[i]
                    ELSE LET a == init_config_ipv4(list[i])
                         IN  [a EXCEPT !.type =
                                 find_interface_type(i # loadFail, a.name, a.type)]],
         calls |-> [i \in 1..last |-> find_interface_type_calls(i # loadFail, upGarbage)],
         returned |-> ~dies]

----------------------------------------------------------------------------
(* Datastore: paths and values *)

EmptyDs == [p \in {} |-> NULL]

Override(ds, edits) ==
    [p \in DOMAIN ds \cup DOMAIN edits |-> IF p \in DOMAIN edits THEN edits[p] ELSE ds[p]]

\* "/ietf-interfaces:interfaces/interface[name='%s']/%s"
xpath_fmt(name, node) == <<name, node>>

\* "/ietf-interfaces:interfaces/interface[name='%s']/ietf-ip:ipv4/%s"
xpath_fmt_ipv4(name, node) == <<name, "ietf-ip:ipv4", node>>

\* an entry of the ietf-ip address list: keyed by its ip, leaves ip and prefix-length
AddressPath(name, key, leaf) == <<name, "ietf-ip:ipv4", "address", key, leaf>>

Garbled == <<"garbled">>

\* sr_get_item; a failing call leaves *value as it was
sr_get_item(ds, path, fails) ==
    IF fails THEN [rc |-> SR_ERR_INTERNAL, val |-> NULL]
    ELSE IF path = Garbled THEN [rc |-> SR_ERR_INVAL_ARG, val |-> NULL]
    ELSE IF path \in DOMAIN ds THEN [rc |-> SR_ERR_OK, val |-> ds[path]]
    ELSE [rc |-> SR_ERR_NOT_FOUND, val |-> NULL]

----------------------------------------------------------------------------
(* sysrepo_commit_network: publish the run-time model at start-up *)

PublishCalls == <<"type", "forwarding", "mtu", "enabled">>

PublishPath(name, call) ==
    IF call = "type" THEN xpath_fmt(name, "type") ELSE xpath_fmt_ipv4(name, call)

PublishValue(iface, call) ==
    CASE call = "type"       -> "iana-if-type:ethernetCsmacd"
      [] call = "forwarding" -> iface.forwarding
      [] call = "mtu"        -> iface.mtu
      [] call = "enabled"    -> iface.enabled

\* the four sr_set_item calls for one interface; a failed one adds no edit.
\* Creating a leaf creates the list entry, and with it the key leaf `name`.
SetItems(iface, i, fault) ==
    LET ok == {k \in 1..Len(PublishCalls) : fault # <<i, PublishCalls[k]>>}
        paths == {PublishPath(iface.name, PublishCalls[k]) : k \in ok}
                 \cup (IF ok = {} THEN {} ELSE {xpath_fmt(iface.name, "name")})
    IN  [p \in paths |->
            IF p = xpath_fmt(iface.name, "name") THEN iface.name
            ELSE PublishValue(iface,
                   PublishCalls[CHOOSE k \in ok : PublishPath(iface.name, PublishCalls[k]) = p])]

\* fault: <<i, call>> names the one call that fails (call "commit" for sr_commit),
\* <<0, "none">> for none. Edits of a failed commit stay in the session.
RECURSIVE CommitLoop(_, _, _, _, _)
CommitLoop(list, i, ds, pending, fault) ==
    IF i > Len(list) THEN ds
    ELSE LET edits == Override(pending, SetItems(list[i], i, fault))
         IN  IF fault = <<i, "commit">>
             THEN CommitLoop(list, i + 1, ds, edits, fault)
             ELSE CommitLoop(list, i + 1, Override(ds, edits), EmptyDs, fault)

sysrepo_commit_network(list, ds, fault) == CommitLoop(list, 1, ds, EmptyDs, fault)

----------------------------------------------------------------------------
(* sysrepo_to_model: pull the datastore into the run-time model *)

PullQueries == <<"enabled", "forwarding", "origin", "mtu", "name", "ip", "prefix_length">>

\* The path each sr_get_item is called with.  For ip and prefix_length the code
\* formats xpath into itself, sprintf(xpath, xpath, iface->name, ...): the one
\* remaining %s takes iface->name, and source and destination overlap, which is
\* undefined: the buffer holds either the expanded path or garbage (fmt).
QueryPath(name, q, fmt) ==
    CASE q \in {"enabled", "forwarding", "origin", "mtu"} -> xpath_fmt_ipv4(name, q)
      [] q = "name" -> xpath_fmt(name, "name")
      [] q \in {"ip", "prefix_length"} ->
            IF fmt = "expanded" THEN AddressPath(name, name, q) ELSE Garbled

\* the sr_get_item call for query q of the interface at position i
Query(ds, iface, i, q, qfail, fmt) ==
    sr_get_item(ds, QueryPath(iface.name, q, fmt), <<i, q>> \in qfail)

\* `if (SR_ERR_OK == rc) field = val->data...`: the field after the query
Merge(ds, iface, i, q, qfail, fmt, old) ==
    IF Query(ds, iface, i, q, qfail, fmt).rc = SR_ERR_OK
    THEN Query(ds, iface, i, q, qfail, fmt).val
    ELSE old

\* One pass of the loop body over one interface: seven queries, each assigning
\* its own field when it succeeds; the name query only logs.
PullIface(ds, iface, i, qfail, fmt) ==
    [name |-> iface.name,
     type |-> iface.type,
     enabled |-> Merge(ds, iface, i, "enabled", qfail, fmt, iface.enabled),
     forwarding |-> Merge(ds, iface, i, "forwarding", qfail, fmt, iface.forwarding),
     origin |-> IF Query(ds, iface, i, "origin", qfail, fmt).rc = SR_ERR_OK
                THEN string_to_origin(Query(ds, iface, i, "origin", qfail, fmt).val)
                ELSE iface.origin,
     mtu |-> Merge(ds, iface, i, "mtu", qfail, fmt, iface.mtu),
     ip |-> Merge(ds, iface, i, "ip", qfail, fmt, iface.ip),
     prefix_length |-> Merge(ds, iface, i, "prefix_length", qfail, fmt, iface.prefix_length)]

\* some query of pass i succeeded: val points to a fresh value at the end of the pass
ValSet(ds, list, i, qfail, fmt) ==
    \E k \in 1..Len(PullQueries) :
        Query(ds, list[i], i, PullQueries[k], qfail, fmt).rc = SR_ERR_OK

\* `if (val) sr_free_val(val)` at the end of each pass does not reset val.  In a
\* pass where no query succeeds, val still holds what an earlier pass freed, and
\* it is freed a second time.
DoubleFree(ds, list, i, qfail, fmt) ==
    /\ ~ValSet(ds, list, i, qfail, fmt)
    /\ \E j \in 1..(i - 1) : ValSet(ds, list, j, qfail, fmt)

DoubleFrees(ds, list, qfail, fmt) ==
    {i \in 1..Len(list) : DoubleFree(ds, list, i, qfail, fmt)}

\* some query ended with an error other than not-found (the code does not tell
\* the two apart)
QueryError(ds, list, qfail, fmt) ==
    \E i \in 1..Len(list) : \E k \in 1..Len(PullQueries) :
        Query(ds, list[i], i, PullQueries[k], qfail, fmt).rc
            \notin {SR_ERR_OK, SR_ERR_NOT_FOUND}

Min(S) == CHOOSE x \in S : \A y \in S : x <= y

\* The double free is undefined behaviour: the process aborts there (dfAbort) or
\* carries on.  returned = FALSE: the process died in the pass of the double free.
sysrepo_to_model(list, ds, qfail, fmt, dfAbort) ==
    LET bad == DoubleFrees(ds, list, qfail, fmt)
        dies == dfAbort /\ bad # {}
    IN  [ifs |-> [i \in 1..Len(list) |->
                    IF dies /\ i >= Min(bad) THEN list[i]
                    ELSE PullIface(ds, list[i], i, qfail, fmt)],
         rc |-> SR_ERR_OK,
         returned |-> ~dies,
         doubleFree |-> bad # {},
         queryError |-> QueryError(ds, list, qfail, fmt)]

----------------------------------------------------------------------------
(* model_to_uci: push the run-time model to the configuration store *)

\* mutant: the commented-out set_forwarding call is made as well
PushCalls_Forwarding(iface) ==
    << [option |-> "operstate",  value |-> iface.enabled],
       [option |-> "forwarding", value |-> iface.forwarding],
       [option |-> "origin",     value |-> origin_to_string(iface.origin)],
       [option |-> "mtu",        value |-> iface.mtu],
       [option |-> "ipaddr",     value |-> iface.ip] >>

\* the setter calls made for one interface, in the order of the code:
\* set_operstate, set_origin, set_mtu, set_ip4
PushCalls(iface) ==
    << [option |-> "operstate", value |-> iface.enabled],
       [option |-> "origin",    value |-> origin_to_string(iface.origin)],
       [option |-> "mtu",       value |-> iface.mtu],
       [option |-> "ipaddr",    value |-> iface.ip] >>

\* mutant: the test of iface->type is missing
Resolved_All(list) == 1..Len(list)

\* `if (!iface->type) continue;`: the positions the loop body runs for
Resolved(list) == {i \in 1..Len(list) : list[i].type # NULL}

\* the j-th position of S in list order
Nth(S, j) == CHOOSE i \in S : Cardinality({x \in S : x < i}) = j - 1

\* every setter call of the push, in order; the setters' return values are not
\* looked at, so a failed call (wfail) is followed by the next one
PushWrites(list, wfail) ==
    LET n == Len(PushCalls(make_interface_ipv4("")))
    IN  [m \in 1..(n * Cardinality(Resolved(list))) |->
            LET i == Nth(Resolved(list), ((m - 1) \div n) + 1)
                c == PushCalls(list[i])[((m - 1) % n) + 1]
            IN  [rec |-> i, section |-> list[i].type, option |-> c.option,
                 value |-> c.value, ok |-> <<i, c.option>> \notin wfail]]

\* the configuration store after the setter calls `writes`: each option holds the
\* value of the last call that succeeded, a failed call changes nothing
uci_set(store, writes) ==
    LET done(p) == {m \in 1..Len(writes) :
                       writes[m].ok /\ <<writes[m].section, writes[m].option>> = p}
        last(p) == CHOOSE m \in done(p) : \A x \in done(p) : x <= m
        touched == {<<writes[m].section, writes[m].option>> : m \in {x \in 1..Len(writes) : writes[x].ok}}
    IN  [p \in DOMAIN store \cup touched |->
            IF done(p) # {} THEN writes[last(p)].value ELSE store[p]]

\* mutant: the first setter that fails ends the push with an error
model_to_uci_StopOnFail(list, uci, wfail) ==
    LET all == PushWrites(list, wfail)
        bad == {m \in 1..Len(all) : ~all[m].ok}
        done == IF bad = {} THEN all ELSE [m \in 1..Min(bad) |-> all[m]]
    IN  [uci |-> uci_set(uci, done), writes |-> done,
         rc |-> IF bad = {} THEN UCI_OK ELSE "UCI_ERR_UNKNOWN"]

\* rc is initialised to UCI_OK and never assigned
model_to_uci(list, uci, wfail) ==
    [uci |-> uci_set(uci, PushWrites(list, wfail)),
     writes |-> PushWrites(list, wfail),
     rc |-> UCI_OK]

----------------------------------------------------------------------------
(* restart_network and module_change_cb *)

\* what the process does after fork() returned restart_pid to it
restart_network(wait_time, restart_pid) ==
    IF restart_pid > 0 THEN "sleep_exec" ELSE "return"

\* fork(): the value it returns in process p
ForkReturn(forkOk, parent, child, p) ==
    IF ~forkOk THEN -1 ELSE IF p = parent THEN child ELSE 0

\* mutant: restart_network is called inside the loop over the interfaces
module_change_cb_PerIface(event, list, ds, uci, qfail, wfail, fmt, dfAbort) ==
    LET pull == sysrepo_to_model(list, ds, qfail, fmt, dfAbort)
        push == model_to_uci(pull.ifs, uci, wfail)
        none == [rc |-> SR_ERR_OK, returned |-> TRUE, ifs |-> list, uci |-> uci,
                 trace |-> <<>>, writes |-> <<>>, restart |-> <<>>,
                 queryError |-> FALSE, doubleFree |-> FALSE]
        pulled == [none EXCEPT !.ifs = pull.ifs, !.trace = <<"sysrepo_to_model">>,
                               !.queryError = pull.queryError,
                               !.doubleFree = pull.doubleFree]
        pushed == [pulled EXCEPT !.uci = push.uci, !.writes = push.writes,
                                 !.trace = <<"sysrepo_to_model", "model_to_uci">>]
    IN  IF event = SR_EV_VERIFY THEN none
        ELSE IF ~pull.returned THEN [pulled EXCEPT !.returned = FALSE]
        ELSE IF pull.rc # SR_ERR_OK THEN [pulled EXCEPT !.rc = pull.rc]
        ELSE IF push.rc # UCI_OK THEN [pushed EXCEPT !.rc = push.rc]
        ELSE [pushed EXCEPT !.trace = Append(pushed.trace, "restart_network"),
                            !.restart = [i \in 1..Len(list) |-> RESTART_TIME_TO_WAIT]]

\* mutant: the early return for SR_EV_VERIFY is missing
module_change_cb_NoVerify(event, list, ds, uci, qfail, wfail, fmt, dfAbort) ==
    LET pull == sysrepo_to_model(list, ds, qfail, fmt, dfAbort)
        push == model_to_uci(pull.ifs, uci, wfail)
        none == [rc |-> SR_ERR_OK, returned |-> TRUE, ifs |-> list, uci |-> uci,
                 trace |-> <<>>, writes |-> <<>>, restart |-> <<>>,
                 queryError |-> FALSE, doubleFree |-> FALSE]
        pulled == [none EXCEPT !.ifs = pull.ifs, !.trace = <<"sysrepo_to_model">>,
                               !.queryError = pull.queryError,
                               !.doubleFree = pull.doubleFree]
        pushed == [pulled EXCEPT !.uci = push.uci, !.writes = push.writes,
                                 !.trace = <<"sysrepo_to_model", "model_to_uci">>]
    IN  IF ~pull.returned THEN [pulled EXCEPT !.returned = FALSE]
        ELSE IF pull.rc # SR_ERR_OK THEN [pulled EXCEPT !.rc = pull.rc]
        ELSE IF push.rc # UCI_OK THEN [pushed EXCEPT !.rc = push.rc]
        ELSE [pushed EXCEPT !.trace = Append(pushed.trace, "restart_network"),
                            !.restart = <<RESTART_TIME_TO_WAIT>>]

\* The callback up to the point where restart_network forks.
\*   returned : FALSE when the process died inside the callback
\*   trace    : the calls made, in order
\*   restart  : the arguments restart_network was called with, one per call
module_change_cb(event, list, ds, uci, qfail, wfail, fmt, dfAbort) ==
    LET pull == sysrepo_to_model(list, ds, qfail, fmt, dfAbort)
        push == model_to_uci(pull.ifs, uci, wfail)
        none == [rc |-> SR_ERR_OK, returned |-> TRUE, ifs |-> list, uci |-> uci,
                 trace |-> <<>>, writes |-> <<>>, restart |-> <<>>,
                 queryError |-> FALSE, doubleFree |-> FALSE]
        pulled == [none EXCEPT !.ifs = pull.ifs, !.trace = <<"sysrepo_to_model">>,
                               !.queryError = pull.queryError,
                               !.doubleFree = pull.doubleFree]
        pushed == [pulled EXCEPT !.uci = push.uci, !.writes = push.writes,
                                 !.trace = <<"sysrepo_to_model", "model_to_uci">>]
    IN  IF event = SR_EV_VERIFY THEN none
        ELSE IF ~pull.returned THEN [pulled EXCEPT !.returned = FALSE]
        ELSE IF pull.rc # SR_ERR_OK THEN [pulled EXCEPT !.rc = pull.rc]
        ELSE IF push.rc # UCI_OK THEN [pushed EXCEPT !.rc = push.rc]
        ELSE [pushed EXCEPT !.trace = Append(pushed.trace, "restart_network"),
                            !.restart = <<RESTART_TIME_TO_WAIT>>]

----------------------------------------------------------------------------
(* data_provider_cb: operational data *)

\* the external commands of scripts.h
StrCmds == {"cmd_enabled", "cmd_mac"}
IntCmds == {"cmd_speed", "cmd_tx", "cmd_tx_err", "cmd_rx", "cmd_rx_err", "cmd_mtu"}

\* what a command prints for an interface of the system
LiveValue(cmd, name) ==
    LET first == name = "eth0"
    IN  CASE cmd = "cmd_enabled" -> IF first THEN "up" ELSE "down"
          [] cmd = "cmd_mac"     -> IF first THEN "00:00:00:00:00:01" ELSE "00:00:00:00:00:02"
          [] cmd = "cmd_speed"   -> IF first THEN 1000 ELSE 54
          [] cmd = "cmd_tx"      -> IF first THEN 100 ELSE 200
          [] cmd = "cmd_tx_err"  -> IF first THEN 0 ELSE 1
          [] cmd = "cmd_rx"      -> IF first THEN 50 ELSE 60
          [] cmd = "cmd_rx_err"  -> IF first THEN 2 ELSE 3
          [] cmd = "cmd_mtu"     -> KernelLinks[name].mtu

\* what a command prints when it is not given the name of an interface of the
\* system
BareValue(cmd) == IF cmd \in StrCmds THEN "usage" ELSE 7

\* popen / fgets / sscanf of one command line, <<cmd>> or <<cmd, arg>>.
\*   env.failed : the command that fails whatever its argument ("none": none)
\*   env.bare   : a command that is not given the name of an interface of the
\*                system (no argument, or a name the system does not have)
\*                prints something; otherwise it prints nothing
RunCmd(env, line) ==
    IF line[1] = env.failed THEN [ok |-> FALSE, out |-> NULL]
    ELSE IF Len(line) = 2 /\ line[2] \in Names
         THEN [ok |-> TRUE, out |-> LiveValue(line[1], line[2])]
    ELSE IF env.bare THEN [ok |-> TRUE, out |-> BareValue(line[1])]
    ELSE [ok |-> FALSE, out |-> NULL]

\* str_from_cmd runs "cmd cmd_arg"; when it fails *ptr keeps what it held
str_from_cmd(env, cmd, cmd_arg, ptr) ==
    LET run == RunCmd(env, <<cmd, cmd_arg>>)
    IN  [line |-> <<cmd, cmd_arg>>, ok |-> run.ok,
         ptr |-> IF run.ok THEN run.out ELSE ptr]

\* int_from_cmd formats "cmd cmd_arg" into cmd_buf but runs popen(cmd)
int_from_cmd(env, cmd, cmd_arg, ptr) ==
    LET run == RunCmd(env, <<cmd>>)
    IN  [line |-> <<cmd>>, ok |-> run.ok,
         ptr |-> IF run.ok THEN run.out ELSE ptr]

\* the commands whose "%lu" result is stored into a uint32_t or a uint16_t
NarrowCmds == {"cmd_tx_err", "cmd_rx_err", "cmd_mtu"}

\* one entry of the value array
Val(if_name, leaf, data, query) ==
    [path |-> <<if_name, leaf>>, data |-> data, query |-> query]

\* the branch `interface`: type, oper-status, phys-address, speed.
\* buf is zeroed once; the phys-address query writes into the same buf
InterfaceValues(env, if_name, interface_name) ==
    LET oper  == str_from_cmd(env, "cmd_enabled", interface_name, "")
        mac   == str_from_cmd(env, "cmd_mac", interface_name, oper.ptr)
        speed == int_from_cmd(env, "cmd_speed", interface_name, 0)
    IN  << Val(if_name, "type", "ethernetCsmacd", <<>>),
           Val(if_name, "oper-status", oper.ptr, oper.line),
           Val(if_name, "phys-address", mac.ptr, mac.line),
           Val(if_name, "speed", speed.ptr, speed.line) >>

\* the branch `statistics`: tx, tx_err, rx, rx_err, each initialised to 0
StatisticsValues(env, if_name, interface_name) ==
    LET tx     == int_from_cmd(env, "cmd_tx", interface_name, 0)
        tx_err == int_from_cmd(env, "cmd_tx_err", interface_name, 0)
        rx     == int_from_cmd(env, "cmd_rx", interface_name, 0)
        rx_err == int_from_cmd(env, "cmd_rx_err", interface_name, 0)
    IN  << Val(if_name, "statistics/out-octets", tx.ptr, tx.line),
           Val(if_name, "statistics/out-errors", tx_err.ptr, tx_err.line),
           Val(if_name, "statistics/in-octets", rx.ptr, rx.line),
           Val(if_name, "statistics/in-errors", rx_err.ptr, rx_err.line) >>

\* the branch `ipv4`: mtu
Ipv4Values(env, if_name, interface_name) ==
    LET mtu == int_from_cmd(env, "cmd_mtu", interface_name, 0)
    IN  << Val(if_name, "statistics/ipv4/mtu", mtu.ptr % 65536, mtu.line) >>

BranchValues(branch, env, if_name, interface_name) ==
    CASE branch = "interface"  -> InterfaceValues(env, if_name, interface_name)
      [] branch = "statistics" -> StatisticsValues(env, if_name, interface_name)
      [] branch = "ipv4"       -> Ipv4Values(env, if_name, interface_name)
      [] OTHER                 -> <<>>

Branches == {"interface", "statistics", "ipv4", "other"}

\* the result of the callback when the process dies in it
ProviderDied ==
    [returned |-> FALSE, rc |-> SR_ERR_OK, valuesPtr |-> "unset", values |-> <<>>,
     cntSet |-> FALSE, cnt |-> 0, branch |-> "none", alloc |-> 0, written |-> {}]

\* data_provider_cb(cb_xpath, values, values_cnt, private_ctx).
\*   ctx   : what private_ctx designates: "null", "freed" or "live"
\*   key   : ctx->key
\*   list  : *ctx->interfaces
\*   stack : cb_xpath is printed but never copied: the branch is chosen by the
\*           local buffer xpath, which is not initialised, so the first test
\*           may take any branch.  Every branch but the last writes a path into
\*           xpath whose last node is none of interface, statistics, ipv4, so
\*           every later pass of the loop takes the last branch.
\*   newOk : sr_new_values succeeds
\*   in.intact : a freed context still holds what it held
\*   in.smash  : storing a "%lu" result into a narrower variable kills the process
\* valuesPtr / values : *values (unset, NULL or the array) and the array
\* cntSet / cnt       : *values_cnt; `values_cnt = 0` sets the pointer, not the count
\* alloc / written    : the count given to sr_new_values and the indices i_v
\*                      at which v[i_v] was written
data_provider_cb(ctx, key, list, in) ==
    LET branch == in.stack
        vals   == BranchValues(branch, in.env, list[1].name, key)
        stored(k) == /\ vals[k].query # <<>>
                     /\ vals[k].query[1] \in NarrowCmds
                     /\ RunCmd(in.env, vals[k].query).ok
        narrow == \E k \in 1..Len(vals) : stored(k)
        ok     == [ProviderDied EXCEPT !.returned = TRUE]
        filled == [ok EXCEPT !.cntSet = TRUE, !.cnt = Len(vals), !.branch = branch,
                             !.alloc = Len(vals),
                             !.written = {k - 1 : k \in 1..Len(vals)}]
    IN  IF ctx = "null" \/ (ctx = "freed" /\ ~in.intact) THEN ProviderDied
        ELSE IF list = <<>> THEN ok
        ELSE IF branch = "other"
        THEN [ok EXCEPT !.valuesPtr = "NULL", !.branch = branch]
        ELSE IF ~in.newOk
        THEN [ok EXCEPT !.rc = SR_ERR_INTERNAL, !.cntSet = TRUE, !.cnt = Len(vals),
                        !.branch = branch]
        ELSE IF narrow /\ in.smash
        THEN [ProviderDied EXCEPT !.branch = branch, !.alloc = Len(vals),
                                  !.written = {k - 1 : k \in {x \in 1..Len(vals) :
                                                 \A y \in 1..x : ~stored(y)}}]
        ELSE IF Len(list) > 1
        THEN [filled EXCEPT !.valuesPtr = "NULL"]
        ELSE [filled EXCEPT !.valuesPtr = "array", !.values = vals]

----------------------------------------------------------------------------
(* sr_plugin_init_cb *)

NoSub == [active |-> FALSE, private |-> NULL]

Unloaded ==
    [state |-> "unloaded", rc |-> SR_ERR_OK, loads |-> 0, ctx |-> "none", freed |-> {},
     private_ctx |-> NULL, dpSub |-> NoSub, changeSub |-> NoSub,
     channel |-> "unopened", links |-> <<>>, uctx |-> "none", uciCalls |-> <<>>,
     cleanup |-> "none", reused |-> {}]

\* the context the n-th call allocates
CtxId(n) == "ctx" \o ToString(n)

\* host: the plug-in record before the call; host.private_ctx is what the host's
\*     slot *private_ctx holds when the call starts
\* in: stream, chanOk (netlink), uciAllocOk (uci_alloc_context), loadFail and
\*     upGarbage (uci_load), pubFault (sr_set_item / sr_commit), dpSubOk, chSubOk
\*     (the two subscribe calls)
\* The record it returns keeps, next to what the host sees (rc, *private_ctx,
\* subscriptions), what happened on the way: the netlink channel, the names
\* ls_interfaces_cb was called with, the uci context and the uci calls.
sr_plugin_init_cb(list, ds, in, host) ==
    LET found  == ls_interfaces(list, in.stream, in.chanOk)
        config == init_config(found, in.loadFail, in.upGarbage)
        loaded == config.ifs
        ds2    == sysrepo_commit_network(loaded, ds, in.pubFault)
        ctx    == CtxId(host.loads + 1)
        seen   == [host EXCEPT !.loads = host.loads + 1, !.rc = SR_ERR_OK,
                               !.ctx = "live", !.uctx = "none", !.uciCalls = <<>>,
                               !.channel = IF in.chanOk THEN "bound" ELSE "failed",
                               !.links = IF in.chanOk THEN host.links \o in.stream
                                                      ELSE host.links]
        alloc  == [seen EXCEPT !.uctx = "allocated", !.uciCalls = config.calls]
    IN  IF ~in.uciAllocOk
        \* goto error with rc still SR_ERR_OK
        THEN [ifs |-> found, ds |-> ds,
              plugin |-> [seen EXCEPT !.state = "returned", !.ctx = "freed",
                                      !.freed = host.freed \cup {ctx},
                                      !.uctx = "failed"]]
        ELSE IF ~config.returned
        \* the process died inside init_config
        THEN [ifs |-> loaded, ds |-> ds,
              plugin |-> [alloc EXCEPT !.state = "aborted"]]
        ELSE IF ~in.dpSubOk
        THEN [ifs |-> loaded, ds |-> ds2,
              plugin |-> [alloc EXCEPT !.state = "returned", !.rc = SR_ERR_INTERNAL,
                                       !.ctx = "freed",
                                       !.freed = host.freed \cup {ctx}]]
        ELSE IF ~in.chSubOk
        \* *private_ctx is already set; sr_unsubscribe gets the first subscription
        THEN [ifs |-> loaded, ds |-> ds2,
              plugin |-> [alloc EXCEPT !.state = "returned", !.rc = SR_ERR_INTERNAL,
                                       !.ctx = "freed",
                                       !.freed = host.freed \cup {ctx},
                                       !.private_ctx = ctx]]
        ELSE [ifs |-> loaded, ds |-> ds2,
              plugin |-> [alloc EXCEPT !.state = "returned",
                                       !.private_ctx = ctx,
                                       \* subscribed with *private_ctx before it is assigned
                                       !.dpSub = [active |-> TRUE,
                                                  private |-> host.private_ctx],
                                       !.changeSub = [active |-> TRUE, private |-> ctx]]]

----------------------------------------------------------------------------
(* sr_plugin_cleanup_cb *)

\* host: the plug-in record before the call; host.private_ctx is the pointer
\*     the host passes
\* dies: the process dies when a freed context is read and freed again
\* ctx->subscription is never assigned (the context comes from calloc and
\* sr_plugin_init_cb keeps the subscription in a local variable), so
\* sr_unsubscribe is given a null subscription and ends none.
\* cleanup: "skipped" (null pointer), "done" or "aborted"
\* reused : the freed contexts the call read and freed again
sr_plugin_cleanup_cb(host, dies) ==
    IF host.private_ctx = NULL THEN [host EXCEPT !.cleanup = "skipped"]
    ELSE IF host.private_ctx \in host.freed
    THEN [host EXCEPT !.cleanup = IF dies THEN "aborted" ELSE "done",
                      !.reused = {host.private_ctx}]
    ELSE [host EXCEPT !.cleanup = "done", !.ctx = "freed",
                      !.freed = host.freed \cup {host.private_ctx}]

----------------------------------------------------------------------------
(* Inputs *)

\* the one call of the publication that fails: none, an sr_set_item or the
\* sr_commit of the first interface
PubFaults ==
    {<<0, "none">>} \cup {<<1, c>> : c \in {"mtu", "commit"}}

InitInputs(received) ==
    [stream : LinkStreams(MaxLinks - received), chanOk : BOOLEAN, uciAllocOk : BOOLEAN,
     loadFail : 0..MaxLinks, upGarbage : BOOLEAN, pubFault : PubFaults,
     dpSubOk : BOOLEAN, chSubOk : BOOLEAN]

\* what a client may have committed for one interface
DsProfile(name, kind) ==
    LET bare == [p \in {xpath_fmt(name, "name")} |-> name]
        en   == [p \in {xpath_fmt_ipv4(name, "enabled")} |-> TRUE]
        full == [p \in {xpath_fmt_ipv4(name, "enabled"), xpath_fmt_ipv4(name, "forwarding"),
                        xpath_fmt_ipv4(name, "origin"), xpath_fmt_ipv4(name, "mtu"),
                        AddressPath(name, "10.0.0.2", "ip"),
                        AddressPath(name, "10.0.0.2", "prefix-length")} |->
                   CASE p = xpath_fmt_ipv4(name, "enabled")    -> FALSE
                     [] p = xpath_fmt_ipv4(name, "forwarding") -> TRUE
                     [] p = xpath_fmt_ipv4(name, "origin")     -> "dhcp"
                     [] p = xpath_fmt_ipv4(name, "mtu")        -> 9000
                     [] p = AddressPath(name, "10.0.0.2", "ip") -> "10.0.0.2"
                     [] p = AddressPath(name, "10.0.0.2", "prefix-length") -> 24]
    IN  CASE kind = "none"    -> EmptyDs
          [] kind = "bare"    -> bare
          [] kind = "enabled" -> Override(bare, en)
          [] kind = "full"    -> Override(bare, full)

DsKinds == {"none", "enabled", "full"}

\* at most one call fails during one callback
Faults(n) ==
    {<<"none", 0, "none">>}
    \cup {<<"query", i, PullQueries[k]>> : i \in 1..n, k \in 1..Len(PullQueries)}
    \cup {<<"write", i, o>> : i \in 1..n, o \in {"operstate", "origin", "mtu", "ipaddr"}}

FailSet(fault, kind) == IF fault[1] = kind THEN {<<fault[2], fault[3]>>} ELSE {}

----------------------------------------------------------------------------
(* The state machine *)

NoEvent ==
    [seq |-> 0, event |-> "none", receiver |-> 0, rc |-> SR_ERR_OK, returned |-> FALSE,
     trace |-> <<>>, writes |-> <<>>, restart |-> <<>>, queryError |-> FALSE,
     doubleFree |-> FALSE]

\* the inputs of one data_provider_cb call.  Inputs the call cannot read are
\* held at one value: nothing is read through a null context; a command is
\* failed only in the branch that runs it; a narrow store needs a command of
\* the branch that printed a number.
NoEnv == [bare |-> FALSE, failed |-> "none"]

NoInput == [intact |-> FALSE, stack |-> "other", env |-> NoEnv, newOk |-> TRUE,
            smash |-> FALSE]

BranchCmds(branch) ==
    CASE branch = "interface"  -> {"cmd_enabled", "cmd_mac", "cmd_speed"}
      [] branch = "statistics" -> {"cmd_tx", "cmd_tx_err", "cmd_rx", "cmd_rx_err"}
      [] branch = "ipv4"       -> {"cmd_mtu"}
      [] OTHER                 -> {}

ProviderInputs(ctx) ==
    IF ctx = "null" THEN {NoInput}
    ELSE {NoInput} \cup
         {in \in [intact : {TRUE}, stack : Branches, newOk : BOOLEAN, smash : BOOLEAN,
                  env : [bare : BOOLEAN, failed : StrCmds \cup IntCmds \cup {"none"}]] :
            /\ in.env.failed \in BranchCmds(in.stack) \cup {"none"}
            /\ (in.stack = "other" \/ ~in.newOk) => (in.env = NoEnv /\ ~in.smash)
            /\ in.smash => (in.env.bare /\ in.stack # "interface")}

NoRequest ==
    [seq |-> 0, node |-> "none", private |-> NULL, in |-> NoInput, out |-> ProviderDied]

Init ==
    /\ interfaces = <<>>
    /\ datastore = EmptyDs
    /\ uciStore = UciFile
    /\ procs = [p \in {1} |-> "plugin"]
    /\ pluginPid = 1
    /\ plugin = Unloaded
    /\ lastEvent = NoEvent
    /\ lastRequest = NoRequest

\* the host loads the plug-in; it calls sr_plugin_init_cb again, with the same
\* slot for *private_ctx, after a call that returned a failure
PluginInit ==
    /\ \/ plugin.state = "unloaded"
       \/ plugin.state = "returned" /\ plugin.rc # SR_ERR_OK
    /\ plugin.cleanup = "none"
    /\ plugin.loads < MaxLoads
    /\ procs[pluginPid] = "plugin"
    /\ \E in \in InitInputs(Len(plugin.links)) :
         \E r \in {sr_plugin_init_cb(interfaces, datastore, in, plugin)} :
             /\ interfaces' = r.ifs
             /\ datastore' = r.ds
             /\ plugin' = r.plugin
             /\ procs' = IF r.plugin.state = "aborted"
                         THEN [procs EXCEPT ![pluginPid] = "aborted"]
                         ELSE procs
    /\ UNCHANGED <<uciStore, pluginPid, lastEvent, lastRequest>>

\* the whole running configuration a client commits: one profile per interface
RECURSIVE Config(_, _)
Config(kinds, S) ==
    IF S = {} THEN EmptyDs
    ELSE LET n == CHOOSE x \in S : TRUE
         IN  Override(Config(kinds, S \ {n}), DsProfile(n, kinds[n]))

\* what the pointer a subscription was registered with designates
CtxState(private) ==
    IF private = NULL THEN "null"
    ELSE IF private \in plugin.freed THEN "freed"
    ELSE "live"

\* module_change_cb when the process dies at its first read through a context
\* that was freed (ctx->interfaces in sysrepo_to_model)
ChangeDied(list, uci) ==
    [rc |-> SR_ERR_OK, returned |-> FALSE, ifs |-> list, uci |-> uci,
     trace |-> <<>>, writes |-> <<>>, restart |-> <<>>,
     queryError |-> FALSE, doubleFree |-> FALSE]

\* the calls the host has made to the callbacks since the initialisation
Delivered ==
    lastEvent.seq + lastRequest.seq + (IF plugin.cleanup = "none" THEN 0 ELSE 1)

CanDeliver ==
    /\ plugin.changeSub.active
    /\ procs[pluginPid] = "plugin"
    /\ Delivered < MaxEvents

\* a client of the datastore commits a configuration
ClientCommit ==
    /\ CanDeliver
    /\ \E kinds \in [Names -> DsKinds] : datastore' = Config(kinds, Names)
    /\ UNCHANGED <<interfaces, uciStore, procs, pluginPid, plugin, lastEvent, lastRequest>>

\* the state after module_change_cb, run in process pluginPid, produced result r
\* and fork() (if restart_network was reached) succeeded or not
Deliver(event, r, forkOk) ==
    LET parent == pluginPid
        child == Cardinality(DOMAIN procs) + 1
        forked == r.returned /\ r.restart # <<>> /\ forkOk
        does(p) == restart_network(r.restart[1], ForkReturn(forkOk, parent, child, p))
        after(p) == IF does(p) = "sleep_exec" THEN "sleeping" ELSE "plugin"
    IN  /\ interfaces' = r.ifs
        /\ uciStore' = r.uci
        /\ procs' =
             IF ~r.returned THEN [procs EXCEPT ![parent] = "aborted"]
             ELSE IF r.restart = <<>> THEN procs
             ELSE [p \in DOMAIN procs \cup (IF forked THEN {child} ELSE {}) |->
                     IF p \in {parent, child} THEN after(p) ELSE procs[p]]
        /\ pluginPid' = IF procs'[parent] = "plugin" \/ ~forked THEN parent ELSE child
        /\ lastEvent' =
             [seq |-> lastEvent.seq + 1, event |-> event, receiver |-> parent,
              rc |-> r.rc, returned |-> r.returned, trace |-> r.trace,
              writes |-> r.writes, restart |-> r.restart,
              queryError |-> r.queryError, doubleFree |-> r.doubleFree]
        /\ UNCHANGED <<datastore, plugin, lastRequest>>

\* sysrepo delivers a pre-commit event to module_change_cb
ChangeVerify ==
    /\ CanDeliver
    /\ \E r \in {module_change_cb(SR_EV_VERIFY, interfaces, datastore, uciStore,
                                   {}, {}, "expanded", FALSE)} :
         Deliver(SR_EV_VERIFY, r, TRUE)

\* sysrepo delivers a post-commit or an abort event to module_change_cb
ChangeEvent ==
    /\ CanDeliver
    /\ \E event \in {SR_EV_APPLY, SR_EV_ABORT}, fault \in Faults(Len(interfaces)),
          fmt \in {"expanded", "garbled"} :
         \E dfAbort \in BOOLEAN,
            gone \in IF CtxState(plugin.changeSub.private) = "freed"
                     THEN BOOLEAN ELSE {FALSE} :
         \E r \in {IF gone THEN ChangeDied(interfaces, uciStore)
                    ELSE module_change_cb(event, interfaces, datastore, uciStore,
                                          FailSet(fault, "query"),
                                          FailSet(fault, "write"), fmt, dfAbort)} :
             /\ dfAbort => ~r.returned
             /\ \E forkOk \in BOOLEAN : Deliver(event, r, forkOk)

\* the process that restart_network put to sleep wakes up and calls execv;
\* if execv fails it calls exit(0)
RestartTimer ==
    /\ \E p \in DOMAIN procs :
         /\ procs[p] = "sleeping"
         /\ \E execOk \in BOOLEAN :
              procs' = [procs EXCEPT ![p] = IF execOk THEN "network_restart" ELSE "exited"]
    /\ UNCHANGED <<interfaces, datastore, uciStore, pluginPid, plugin, lastEvent,
                   lastRequest>>

\* sysrepo asks data_provider_cb for the operational data under `node`
DataRequest ==
    /\ plugin.dpSub.active
    /\ procs[pluginPid] = "plugin"
    /\ Delivered < MaxEvents
    /\ \E node \in Branches, in \in ProviderInputs(CtxState(plugin.dpSub.private)) :
         \E r \in {data_provider_cb(CtxState(plugin.dpSub.private), "bla",
                                     interfaces, in)} :
             /\ lastRequest' = [seq |-> lastRequest.seq + 1, node |-> node,
                                private |-> plugin.dpSub.private, in |-> in, out |-> r]
             /\ procs' = IF r.returned THEN procs
                         ELSE [procs EXCEPT ![pluginPid] = "aborted"]
    /\ UNCHANGED <<interfaces, datastore, uciStore, pluginPid, plugin, lastEvent>>

\* the host unloads the plug-in: it calls sr_plugin_cleanup_cb with the
\* content of its slot, whatever sr_plugin_init_cb returned
PluginCleanup ==
    /\ plugin.state = "returned"
    /\ plugin.cleanup = "none"
    /\ procs[pluginPid] = "plugin"
    /\ Delivered < MaxEvents
    /\ \E dies \in IF plugin.private_ctx \in plugin.freed THEN BOOLEAN ELSE {FALSE} :
         \E r \in {sr_plugin_cleanup_cb(plugin, dies)} :
             /\ plugin' = r
             /\ procs' = IF r.cleanup = "aborted"
                         THEN [procs EXCEPT ![pluginPid] = "aborted"]
                         ELSE procs
    /\ UNCHANGED <<interfaces, datastore, uciStore, pluginPid, lastEvent, lastRequest>>

Next ==
    PluginInit \/ ClientCommit \/ ChangeVerify \/ ChangeEvent \/ RestartTimer
        \/ DataRequest \/ PluginCleanup

Spec == Init /\ [][Next]_vars

----------------------------------------------------------------------------
(* Vocabulary of the properties *)

\* this step is an invocation of module_change_cb
EventStep == lastEvent'.seq # lastEvent.seq

\* this step is an invocation that entered sysrepo_to_model / model_to_uci
PullStep == EventStep /\ \E k \in 1..Len(lastEvent'.trace) : lastEvent'.trace[k] = "sysrepo_to_model"
PushStep == EventStep /\ \E k \in 1..Len(lastEvent'.trace) : lastEvent'.trace[k] = "model_to_uci"

\* the last invocation was an Apply that returned success to sysrepo
AppliedOk ==
    /\ lastEvent.event = SR_EV_APPLY
    /\ lastEvent.returned
    /\ lastEvent.rc = SR_ERR_OK

\* the six attributes of the merge and where the datastore keeps each
Attributes == {"enabled", "forwarding", "origin", "mtu", "ip", "prefix_length"}

AttrPaths(ds, name, attr) ==
    CASE attr \in {"enabled", "forwarding", "origin", "mtu"} ->
            {xpath_fmt_ipv4(name, attr)} \cap DOMAIN ds
      [] attr = "ip" ->
            {p \in DOMAIN ds : Len(p) = 5 /\ p[1] = name /\ p[3] = "address" /\ p[5] = "ip"}
      [] attr = "prefix_length" ->
            {p \in DOMAIN ds : Len(p) = 5 /\ p[1] = name /\ p[3] = "address"
                               /\ p[5] = "prefix-length"}

Holds(ds, name, attr) == AttrPaths(ds, name, attr) # {}

\* the in-memory value of an attribute is the datastore value v
SameAs(iface, attr, v) ==
    CASE attr = "enabled"       -> iface.enabled = v
      [] attr = "forwarding"    -> iface.forwarding = v
      [] attr = "origin"        -> origin_to_string(iface.origin) = v
      [] attr = "mtu"           -> iface.mtu = v
      [] attr = "ip"            -> iface.ip = v
      [] attr = "prefix_length" -> iface.prefix_length = v

Kept(old, new, attr) ==
    CASE attr = "enabled"       -> new.enabled = old.enabled
      [] attr = "forwarding"    -> new.forwarding = old.forwarding
      [] attr = "origin"        -> new.origin = old.origin
      [] attr = "mtu"           -> new.mtu = old.mtu
      [] attr = "ip"            -> new.ip = old.ip
      [] attr = "prefix_length" -> new.prefix_length = old.prefix_length

\* the options the push may write
PushOptions == <<"operstate", "origin", "mtu", "ipaddr">>
PushOptionSet == {PushOptions[k] : k \in 1..Len(PushOptions)}

----------------------------------------------------------------------------
(* Properties *)

\* C1: in a pull, every attribute the datastore does not hold for an interface
\* keeps its in-memory value, and the pull returns success (also when an
\* interface has no datastore entry at all).
C1_AbsentValueKept ==
    [][PullStep =>
          /\ lastEvent'.returned
          /\ lastEvent'.rc = SR_ERR_OK
          /\ Len(interfaces') = Len(interfaces)
          /\ \A i \in 1..Len(interfaces) : \A attr \in Attributes :
                ~Holds(datastore, interfaces[i].name, attr)
                    => Kept(interfaces[i], interfaces'[i], attr)]_vars

\* C2: after a pull in which no query ended with an error, every attribute the
\* datastore holds for an interface has the datastore's value in memory.
C2_PresentValueTaken ==
    [][(PullStep /\ lastEvent'.returned /\ ~lastEvent'.queryError) =>
          \A i \in 1..Len(interfaces') : \A attr \in Attributes :
              \A p \in AttrPaths(datastore, interfaces'[i].name, attr) :
                  SameAs(interfaces'[i], attr, datastore[p])]_vars

\* C3: an Apply that returns success has called restart_network exactly once,
\* with RESTART_TIME_TO_WAIT, after sysrepo_to_model and model_to_uci, whatever
\* the number of interfaces.
C3_RestartOnce ==
    AppliedOk =>
        /\ lastEvent.restart = <<RESTART_TIME_TO_WAIT>>
        /\ lastEvent.trace = <<"sysrepo_to_model", "model_to_uci", "restart_network">>

C3_Witness ==
    /\ AppliedOk
    /\ Len(interfaces) >= 2
    /\ Len(lastEvent.restart) = 1

\* C4: after restart_network was called, the process that received the change
\* event is still the running plug-in: it neither sleeps nor is replaced.
C4_CallerContinues ==
    (lastEvent.returned /\ lastEvent.restart # <<>>)
        => procs[lastEvent.receiver] = "plugin"

\* C5: an Apply in which a datastore query ended with an error or a
\* configuration-store write failed returns a failure code and does not call
\* restart_network.
C5_FailureAborts ==
    (/\ lastEvent.event = SR_EV_APPLY
     /\ lastEvent.returned
     /\ \/ lastEvent.queryError
        \/ \E m \in 1..Len(lastEvent.writes) : ~lastEvent.writes[m].ok)
        => (lastEvent.rc # SR_ERR_OK /\ lastEvent.restart = <<>>)

\* C6: a verify event returns SR_ERR_OK and changes neither the registry, the
\* datastore, the configuration store nor the processes; no restart is scheduled.
C6_VerifyAccepts ==
    [][(EventStep /\ lastEvent'.event = SR_EV_VERIFY) =>
          /\ lastEvent'.returned
          /\ lastEvent'.rc = SR_ERR_OK
          /\ lastEvent'.restart = <<>>
          /\ lastEvent'.writes = <<>>
          /\ UNCHANGED <<interfaces, datastore, uciStore, procs, pluginPid>>]_vars

\* a verify event arrived while an Apply would have had something to merge and push
C6_Witness ==
    /\ lastEvent.event = SR_EV_VERIFY
    /\ lastEvent.rc = SR_ERR_OK
    /\ uciStore = UciFile
    /\ \E i \in 1..Len(interfaces) :
          /\ interfaces[i].type # NULL
          /\ Holds(datastore, interfaces[i].name, "mtu")
          /\ ~SameAs(interfaces[i], "mtu", datastore[xpath_fmt_ipv4(interfaces[i].name, "mtu")])

\* C7: a push calls the setters for exactly the interfaces whose type is set,
\* with the section and the in-memory values of that interface; interfaces
\* without a type cause no write and the callback goes on to the restart.
C7_PushResolvedOnly ==
    [][PushStep =>
          /\ \A i \in 1..Len(interfaces') :
                (interfaces'[i].type # NULL)
                    <=> (\E m \in 1..Len(lastEvent'.writes) : lastEvent'.writes[m].rec = i)
          /\ \A m \in 1..Len(lastEvent'.writes) :
                LET w == lastEvent'.writes[m]
                    f == interfaces'[w.rec]
                IN  /\ w.section = f.type
                    /\ CASE w.option = "operstate" -> w.value = f.enabled
                         [] w.option = "origin"    -> w.value = origin_to_string(f.origin)
                         [] w.option = "mtu"       -> w.value = f.mtu
                         [] w.option = "ipaddr"    -> w.value = f.ip
                         [] OTHER                  -> FALSE
          /\ lastEvent'.rc = SR_ERR_OK
          /\ lastEvent'.trace[Len(lastEvent'.trace)] = "restart_network"]_vars

C7_Witness ==
    /\ lastEvent.writes # <<>>
    /\ lastEvent.restart # <<>>
    /\ \E i, j \in 1..Len(interfaces) :
          /\ interfaces[i].type # NULL
          /\ interfaces[j].type = NULL
          /\ \E m \in 1..Len(lastEvent.writes) : lastEvent.writes[m].rec = i

\* C8: the setter calls of a push come in complete groups of four per
\* interface, in the order operstate, origin, mtu, ipaddr, each once, whether
\* or not an earlier call failed; the groups follow the list order.
C8_WritesIndependent ==
    LET w == lastEvent.writes
        n == Len(PushOptions)
    IN  /\ Len(w) % n = 0
        /\ \A m \in 1..Len(w) :
              /\ w[m].option = PushOptions[((m - 1) % n) + 1]
              /\ (m - 1) % n # 0 => w[m].rec = w[m - 1].rec
              /\ ((m - 1) % n = 0 /\ m > 1) => w[m].rec > w[m - 1].rec

\* a failed mtu write is followed by the ipaddr write of the same interface
\* and by the writes of a later interface
C8_Witness ==
    \E m \in 1..Len(lastEvent.writes) :
        /\ lastEvent.writes[m].option = "mtu"
        /\ ~lastEvent.writes[m].ok
        /\ m < Len(lastEvent.writes)
        /\ lastEvent.writes[m + 1].option = "ipaddr"
        /\ lastEvent.writes[m + 1].rec = lastEvent.writes[m].rec
        /\ lastEvent.writes[m + 1].ok
        /\ lastEvent.writes[Len(lastEvent.writes)].rec > lastEvent.writes[m].rec

\* C9: no setter call is about forwarding or the prefix length, and no step
\* adds or changes an option of the configuration store other than operstate,
\* origin, mtu and ipaddr.
C9_NoForwardingNoPrefix ==
    [][/\ \A m \in 1..Len(lastEvent'.writes) :
             lastEvent'.writes[m].option \in PushOptionSet
       /\ \A p \in DOMAIN uciStore' :
             (p \notin DOMAIN uciStore \/ uciStore'[p] # uciStore[p])
                 => p[2] \in PushOptionSet
       /\ DOMAIN uciStore \subseteq DOMAIN uciStore']_vars

\* forwarding was pulled from the datastore and the interface was pushed
C9_Witness ==
    \E i \in 1..Len(interfaces) :
        /\ interfaces[i].forwarding
        /\ Holds(datastore, interfaces[i].name, "forwarding")
        /\ \E m \in 1..Len(lastEvent.writes) : lastEvent.writes[m].rec = i
        /\ <<interfaces[i].type, "operstate">> \in DOMAIN uciStore

\* C10: the registry holds at most one record per interface name, and before
\* any change event every record has ipv4 enabled.
C10_OneRecordPerName ==
    /\ \A i, j \in 1..Len(interfaces) :
          interfaces[i].name = interfaces[j].name => i = j
    /\ lastEvent.seq = 0 => \A i \in 1..Len(interfaces) : interfaces[i].enabled

\* position of the first message of the kernel's answer that carried the name
FirstSeen(name) ==
    CHOOSE k \in 1..Len(plugin.links) :
        /\ plugin.links[k] = name
        /\ \A x \in 1..(k - 1) : plugin.links[x] # name

\* C11: a traversal of the registry visits the names in the order in which the
\* kernel's answer first carried them.
C11_RegistryInSeenOrder ==
    \A i, j \in 1..Len(interfaces) :
        (i < j /\ interfaces[i].name # interfaces[j].name)
            => FirstSeen(interfaces[i].name) < FirstSeen(interfaces[j].name)

\* C12: every find_interface_type call unloads the package exactly when it has
\* loaded it: a successful uci_load is followed by one uci_unload, a failed one
\* by none.
C12_LoadUnloadBalanced ==
    \A i \in 1..Len(plugin.uciCalls) :
        /\ plugin.uciCalls[i][1] = "load" => plugin.uciCalls[i] = <<"load", "unload">>
        /\ plugin.uciCalls[i][1] = "load_failed" => plugin.uciCalls[i] = <<"load_failed">>

\* C13: an interface whose package load succeeded has as type the name of the
\* first section, in file order, whose ifname option equals the interface name,
\* and no type when no section matches; a missing match does not end the
\* initialisation.
C13_FirstMatchWins ==
    /\ \A i \in 1..Len(plugin.uciCalls) :
          plugin.uciCalls[i][1] = "load" =>
              IF \E k \in 1..Len(UciSections) : UciSections[k].ifname = interfaces[i].name
              THEN \E k \in 1..Len(UciSections) :
                      /\ UciSections[k].ifname = interfaces[i].name
                      /\ \A x \in 1..(k - 1) : UciSections[x].ifname # interfaces[i].name
                      /\ interfaces[i].type = UciSections[k].name
              ELSE interfaces[i].type = NULL
    /\ plugin.state = "aborted" =>
          \E i \in 1..Len(plugin.uciCalls) : plugin.uciCalls[i][1] = "load_failed"

\* initialisation succeeded with one interface that two sections name and one
\* that no section names
C13_Witness ==
    /\ plugin.state = "returned"
    /\ plugin.rc = SR_ERR_OK
    /\ \E i, j \in 1..Len(plugin.uciCalls) :
          /\ plugin.uciCalls[i][1] = "load"
          /\ plugin.uciCalls[j][1] = "load"
          /\ Cardinality(Matching(interfaces[i].name)) >= 2
          /\ interfaces[i].type # NULL
          /\ Matching(interfaces[j].name) = {}
          /\ interfaces[j].type = NULL

\* C14: when the netlink channel could not be opened or bound (and the uci
\* context was allocated), the initialisation returns a failure and leaves no
\* subscription.
C14_ChannelFailureAborts ==
    (plugin.state = "returned" /\ plugin.channel = "failed" /\ plugin.uctx = "allocated")
        => /\ plugin.rc # SR_ERR_OK
           /\ ~plugin.dpSub.active
           /\ ~plugin.changeSub.active

\* C15: when uci_alloc_context fails, the initialisation frees the context,
\* leaves no subscription and returns a failure.
C15_UciAllocFailureAborts ==
    (plugin.state = "returned" /\ plugin.uctx = "failed")
        => /\ plugin.ctx = "freed"
           /\ ~plugin.dpSub.active
           /\ ~plugin.changeSub.active
           /\ plugin.rc # SR_ERR_OK


\* the leaves of the statistics answer and the command of each, in the order
\* of the code
StatisticsLeaves ==
    << <<"statistics/out-octets", "cmd_tx">>, <<"statistics/out-errors", "cmd_tx_err">>,
       <<"statistics/in-octets", "cmd_rx">>, <<"statistics/in-errors", "cmd_rx_err">> >>

\* the call got an array of n values back, with success
Answered(n) ==
    /\ lastRequest.out.returned
    /\ lastRequest.out.rc = SR_ERR_OK
    /\ lastRequest.out.valuesPtr = "array"
    /\ lastRequest.out.cntSet
    /\ lastRequest.out.cnt = n
    /\ Len(lastRequest.out.values) = n

\* C16: a request for the node `statistics`, with an interface in the registry,
\* is answered with success by exactly 4 values, out-octets, out-errors,
\* in-octets, in-errors in this order, each the live counter of the interface of
\* its path, or 0 when the query of that counter failed.
C16_StatisticsCounters ==
    (lastRequest.node = "statistics" /\ interfaces # <<>>) =>
        /\ Answered(4)
        /\ \A k \in 1..4 :
              LET v == lastRequest.out.values[k]
              IN  /\ v.path[2] = StatisticsLeaves[k][1]
                  /\ v.data = IF lastRequest.in.env.failed = StatisticsLeaves[k][2]
                              THEN 0
                              ELSE LiveValue(StatisticsLeaves[k][2], v.path[1])

\* C17: a request for a node that is none of interface, statistics, ipv4 is
\* answered with success and an empty result: no value array (the caller's
\* initial null or the null the callback stores) and a count that is 0 (the
\* caller's initial 0 or a 0 the callback stores).
C17_OtherNodeEmpty ==
    lastRequest.node = "other" =>
        /\ lastRequest.out.returned
        /\ lastRequest.out.rc = SR_ERR_OK
        /\ lastRequest.out.valuesPtr \in {"unset", "NULL"}
        /\ lastRequest.out.cntSet => lastRequest.out.cnt = 0

\* the fields of the interface and ipv4 answers obtained by a command: leaf,
\* command, zero value
QueriedFields ==
    { <<"oper-status", "cmd_enabled", "">>, <<"phys-address", "cmd_mac", "">>,
      <<"speed", "cmd_speed", 0>>, <<"statistics/ipv4/mtu", "cmd_mtu", 0>> }

\* the command the field's query ran did not give a result
QueryFailed(v) == ~RunCmd(lastRequest.in.env, v.query).ok

\* C18: in an answer of the branch interface or ipv4, a field whose own query
\* failed holds its zero value (0 or the empty string), and the answer is
\* returned with success and all its fields.
C18_FailedQueryZero ==
    (lastRequest.out.branch \in {"interface", "ipv4"}
        /\ lastRequest.in.newOk
        /\ \E f \in QueriedFields : f[2] \in BranchCmds(lastRequest.out.branch)
                                    /\ f[2] = lastRequest.in.env.failed) =>
        /\ Answered(IF lastRequest.out.branch = "interface" THEN 4 ELSE 1)
        /\ \A k \in 1..Len(lastRequest.out.values) :
              LET v == lastRequest.out.values[k]
              IN  \A f \in QueriedFields :
                     (v.path[2] = f[1] /\ QueryFailed(v)) => v.data = f[3]

\* C19: every reported value that comes from an external query was obtained by
\* a query issued for the interface of the value's path: the query has an
\* interface name as argument and it is the name in the path.
C19_QueryForPathInterface ==
    \A k \in 1..Len(lastRequest.out.values) :
        LET v == lastRequest.out.values[k]
        IN  v.query # <<>> => (Len(v.query) = 2 /\ v.query[2] = v.path[1])

\* C20: module_change_cb called with an abort event leaves the registry and the
\* configuration store as they are, makes no write and schedules no restart.
C20_AbortChangesNothing ==
    [][(EventStep /\ lastEvent'.event = SR_EV_ABORT) =>
          /\ interfaces' = interfaces
          /\ uciStore' = uciStore
          /\ lastEvent'.writes = <<>>
          /\ lastEvent'.restart = <<>>]_vars

\* the context a pointer designates is the one the successful initialisation
\* created: not null, not freed, and the one published in *private_ctx
InitializedCtx(private) ==
    /\ private # NULL
    /\ private \notin plugin.freed
    /\ private = plugin.private_ctx

\* C21: after a successful initialisation both callbacks are registered with
\* the context that initialisation created, and every data_provider_cb call
\* was made with a context that is not null.
C21_CallbacksGetInitializedCtx ==
    /\ (plugin.state = "returned" /\ plugin.rc = SR_ERR_OK /\ plugin.dpSub.active) =>
           InitializedCtx(plugin.dpSub.private)
    /\ (plugin.state = "returned" /\ plugin.rc = SR_ERR_OK /\ plugin.changeSub.active) =>
           InitializedCtx(plugin.changeSub.private)
    /\ lastRequest.seq > 0 => lastRequest.private # NULL

\* what the caller holds after the call; it starts with no array and a count of 0
ReturnedCount == IF lastRequest.out.cntSet THEN lastRequest.out.cnt ELSE 0
ReturnedArray ==
    IF lastRequest.out.valuesPtr = "array" THEN lastRequest.out.values ELSE <<>>

\* C22: when data_provider_cb returns success the count handed back is the
\* number of entries of the array handed back (no array exactly when the count
\* is 0), and every write into the array was at an index below the allocated
\* count.
C22_CountMatchesArray ==
    (lastRequest.out.returned /\ lastRequest.out.rc = SR_ERR_OK) =>
        /\ ReturnedCount = Len(ReturnedArray)
        /\ (lastRequest.out.valuesPtr # "array") <=> (ReturnedCount = 0)
        /\ \A i \in lastRequest.out.written : i < lastRequest.out.alloc

\* C23: a released context is never referenced again.  No active subscription
\* holds a freed context; after sr_plugin_cleanup_cb no subscription is active;
\* the pointer left in the host's slot before the cleanup does not designate a
\* freed context; and the cleanup never reads or frees a context that was
\* already freed.
C23_ReleasedCtxUnreferenced ==
    /\ plugin.dpSub.active => plugin.dpSub.private \notin plugin.freed
    /\ plugin.changeSub.active => plugin.changeSub.private \notin plugin.freed
    /\ plugin.cleanup = "done" => (~plugin.dpSub.active /\ ~plugin.changeSub.active)
    /\ plugin.cleanup = "none" => plugin.private_ctx \notin plugin.freed
    /\ plugin.reused = {}
====
